---- MODULE Spec2Model ----
(***************************************************************************)
(* Progress / level / badge ledger of backend/database/progress_manager.py *)
(* (class ProgressManager).                                                *)
(*                                                                         *)
(* Conventions.                                                            *)
(*  - A Python Optional value is a sequence of length 0 (None) or 1.       *)
(*  - A Python dict is a function whose DOMAIN is the set of its keys.     *)
(*  - datetime values are integers counting days; timedelta(days=n) is n.  *)
(*  - A float score is an integer (the ledger only compares and subtracts  *)
(*    them).                                                               *)
(*  - The Japanese display strings and emoji icons of the catalogs are     *)
(*    written as ASCII translations.                                       *)
(*  - In Spec, SpecWeek, SpecLevel, SpecExp, SpecLoad and SpecTrend a call *)
(*    is one step and the write of the data file meets no error.  SpecSave *)
(*    takes _save_data apart into opening the file (which truncates it)    *)
(*    and dumping to it; either may raise, and _save_data swallows the     *)
(*    exception.                                                           *)
(***************************************************************************)
EXTENDS Integers, Sequences, FiniteSets, TLC

\* ------------------------------------------------------------------ bounds
MaxRecords == 2         \* add_analysis_record calls in a run of Spec
MaxWeekRecords == 4     \* add_analysis_record calls in a run of SpecWeek
MaxTime == 8            \* the clock stops advancing at this day
MaxLevelRecords == 6    \* add_analysis_record calls in a run of SpecLevel
MaxExpRecords == 2      \* add_analysis_record calls in a run of SpecExp
MaxLoadRecords == 3     \* records in the store in a run of SpecLoad
MaxTrendRecords == 3    \* add_analysis_record calls in a run of SpecTrend
MaxTrendTime == 32      \* the clock of SpecTrend stops advancing at this day
MaxSaveRecords == 2     \* add_analysis_record calls in a run of SpecSave
MaxImproveRecords == 6  \* add_analysis_record calls in a run of SpecImprove
MaxChampionRecords == 3 \* add_analysis_record calls in a run of SpecChampion
MaxClimbRecords == 250  \* add_analysis_record calls in a run of SpecClimb
MaxFreeRecords == 4     \* calls of SpecClimb before the score settles
MaxRaceCalls == 2       \* calls submitted in a run of SpecRace

\* ------------------------------------------------------------------ inputs
None == << >>
Some(v) == << v >>
Users == {"u1", "u2"}
SessionIds == {"s1"}
\* (score, angle, category_scores) of the calls made in Spec
Requests ==
    { [score |-> 40, angle |-> "front", category_scores |-> None],
      [score |-> 95, angle |-> "side",
       category_scores |->
          Some([stance |-> 90, swing_path |-> 84, balance |-> 85])] }
\* badge ids passed to award_badge: two catalog ids and a non-catalog id
ManualBadgeIds == {"first_analysis", "consistent_week", "level_2"}
TickDays == {4}         \* days that pass between two calls
CallDelays == {0, 1}    \* days that pass inside one call
LevelScores == {40, 72, 95}   \* scores of the calls made in SpecLevel
\* badge ids passed to award_badge in SpecLevel; the first is never
\* awarded automatically
LevelBadgeIds == {"improvement_champion", "first_analysis", "level_2"}
\* scores of the calls made in SpecExp: the examples of the experience table,
\* both sides of every tier bound, and scores outside [0, 100]
ExpScores == {-5, 0, 40, 59, 60, 65, 69, 70, 72, 79, 80, 85, 89, 90, 95,
              100, 105}
\* days that pass between two calls in SpecTrend
TrendTickDays == {16}
\* scores of the calls made in SpecTrend: a negative one, a zero, scores 4
\* and 5 apart and a high one
TrendScores == {-10, 0, 40, 44, 45, 95}
\* scores of the calls made in SpecImprove: 19 and 20 above the lowest
ImproveScores == {50, 69, 70}
\* scores of the calls made in SpecClimb: the least and the most experience
ClimbScores == {40, 95}
\* category_scores of the calls made in SpecChampion: none, and every
\* category above 80
ChampionCategoryScores ==
    { None, Some([stance |-> 90, swing_path |-> 84, balance |-> 85]) }

VARIABLES now,            \* the wall clock read by datetime.now()
          progress_data,  \* ProgressManager.progress_data
          data_file,      \* the data file: its kind and its parsed content
          saves,          \* number of times the data file was written
          result,         \* the last call and the value it returned
          saving,         \* the _save_data in progress and its caller
          serving,        \* how the deployment schedules the calls it makes
          calls,          \* per caller: the call in flight and its locals
          returned        \* the add_analysis_record calls that returned

\* The state of the callers that run add_analysis_record and award_badge
\* statement by statement.
race == << serving, calls, returned >>

vars == << now, progress_data, data_file, saves, result, saving, race >>

\* ------------------------------------------------------- static catalogs
\* level_requirements whose level 3 asks no more than level 2.
level_requirements_flat ==
    << [name |-> "Beginner", min_points |-> 0,    min_analyses |-> 0],
       [name |-> "Player", min_points |-> 100,  min_analyses |-> 5],
       [name |-> "Skilled Player", min_points |-> 100,  min_analyses |-> 5],
       [name |-> "Advanced Player", min_points |-> 600,  min_analyses |-> 30],
       [name |-> "Expert", min_points |-> 1000, min_analyses |-> 50],
       [name |-> "Master", min_points |-> 1500, min_analyses |-> 75],
       [name |-> "Legend", min_points |-> 2500, min_analyses |-> 100] >>

level_requirements ==
    << [name |-> "Beginner", min_points |-> 0,    min_analyses |-> 0],
       [name |-> "Player", min_points |-> 100,  min_analyses |-> 5],
       [name |-> "Skilled Player", min_points |-> 300,  min_analyses |-> 15],
       [name |-> "Advanced Player", min_points |-> 600,  min_analyses |-> 30],
       [name |-> "Expert", min_points |-> 1000, min_analyses |-> 50],
       [name |-> "Master", min_points |-> 1500, min_analyses |-> 75],
       [name |-> "Legend", min_points |-> 2500, min_analyses |-> 100] >>

\* Keys of badge_definitions in dict (insertion) order.
BadgeOrder ==
    << "first_analysis", "consistent_week", "form_improver", "stance_master",
       "swing_artist", "balance_keeper", "monthly_warrior", "perfectionist",
       "dedicated_student", "improvement_champion" >>

BadgeDef(n, d, i, c) ==
    [name |-> n, description |-> d, icon |-> i, auto_award |-> TRUE,
     condition |-> c]

badge_definitions ==
    [ first_analysis |->
        BadgeDef("First analysis", "Completed the first video analysis", "tennis",
                 "analysis_count >= 1"),
      consistent_week |->
        BadgeDef("A step of continuity", "3 analyses within 1 week", "calendar",
                 "weekly_analyses >= 3"),
      form_improver |->
        BadgeDef("Form improver", "Overall score improved by 20 points", "chart",
                 "score_improvement >= 20"),
      stance_master |->
        BadgeDef("Stance master", "Reached a stance score of 90 or more", "building",
                 "stance_score >= 90"),
      swing_artist |->
        BadgeDef("Swing artist", "Reached a swing path score of 85 or more",
                 "palette", "swing_score >= 85"),
      balance_keeper |->
        BadgeDef("Balance keeper", "Reached a balance score of 85 or more", "scales",
                 "balance_score >= 85"),
      monthly_warrior |->
        BadgeDef("Monthly warrior", "Practised for a whole month", "spiral calendar",
                 "monthly_analyses >= 8"),
      perfectionist |->
        BadgeDef("Perfectionist", "Reached an overall score of 95 or more", "gem",
                 "overall_score >= 95"),
      dedicated_student |->
        BadgeDef("Dedicated student", "Completed 50 analyses", "books",
                 "total_analyses >= 50"),
      improvement_champion |->
        BadgeDef("Improvement champion", "Reached 80 or more in every category", "trophy",
                 "all_categories_above_80") ]

\* ------------------------------------------------------------ data classes
AnalysisRecord(session_id, date, overall_score, angle, category_scores) ==
    [session_id |-> session_id, date |-> date,
     overall_score |-> overall_score, angle |-> angle,
     category_scores |-> category_scores]

Badge(id, name, description, earned_date, icon) ==
    [id |-> id, name |-> name, description |-> description,
     earned_date |-> earned_date, icon |-> icon]

\* UserProgress(user_id=user_id): the dataclass defaults, then __post_init__.
UserProgress(user_id, t) ==
    [user_id |-> user_id, total_analyses |-> 0, current_level |-> 1,
     experience_points |-> 0, analysis_records |-> << >>, badges |-> << >>,
     created_date |-> t, last_analysis_date |-> None]

\* --------------------------------------------------------------- helpers
RECURSIVE SeqMax(_)
SeqMax(s) ==
    IF Len(s) = 1 THEN s[1]
    ELSE LET m == SeqMax(Tail(s)) IN IF s[1] >= m THEN s[1] ELSE m

\* s[-n:]
LastN(s, n) == IF Len(s) <= n THEN s ELSE SubSeq(s, Len(s) - n + 1, Len(s))
\* s[:n]
FirstN(s, n) == IF Len(s) <= n THEN s ELSE SubSeq(s, 1, n)

BadgeIds(progress) ==
    { progress.badges[i].id : i \in 1 .. Len(progress.badges) }

\* sum(1 for record in analysis_records if record.date >= since)
CountSince(progress, since) ==
    Cardinality({ i \in 1 .. Len(progress.analysis_records) :
                    progress.analysis_records[i].date >= since })

\* _calculate_experience_points with strict comparisons at the tier bounds.
_calculate_experience_points_strict(score) ==
    LET base_points == 10
        bonus == IF score > 90 THEN 20
                 ELSE IF score > 80 THEN 15
                 ELSE IF score > 70 THEN 10
                 ELSE IF score > 60 THEN 5
                 ELSE 0
    IN  base_points + bonus

\* ------------------------------------------------ experience / level engine
_calculate_experience_points(score) ==
    LET base_points == 10
        bonus == IF score >= 90 THEN 20
                 ELSE IF score >= 80 THEN 15
                 ELSE IF score >= 70 THEN 10
                 ELSE IF score >= 60 THEN 5
                 ELSE 0
    IN  base_points + bonus

\* The loop over level_requirements.items(), levels 1..upto.
RECURSIVE LevelScan(_, _, _)
LevelScan(progress, current_level, level) ==
    IF level > Len(level_requirements) THEN current_level
    ELSE LET requirements == level_requirements[level]
             attained ==
                 /\ progress.experience_points >= requirements.min_points
                 /\ progress.total_analyses >= requirements.min_analyses
             next == IF attained /\ level > current_level
                     THEN level ELSE current_level
         IN  LevelScan(progress, next, level + 1)

\* _check_level_up with "or" between the two threshold tests.
_check_level_up_or(progress) ==
    LET attained(level) ==
            \/ progress.experience_points >= level_requirements[level].min_points
            \/ progress.total_analyses >= level_requirements[level].min_analyses
        levels == { level \in DOMAIN level_requirements : attained(level) }
                  \cup {progress.current_level}
    IN  CHOOSE level \in levels : \A other \in levels : other <= level

_check_level_up(progress) == LevelScan(progress, progress.current_level, 1)

_award_level_up_badge(progress, level, t) ==
    LET level_badge_id == "level_" \o ToString(level)
        badge == Badge(level_badge_id,
                       "Level " \o ToString(level) \o " reached",
                       "You have reached level " \o ToString(level),
                       t, "star")
    IN  [progress EXCEPT !.badges = Append(@, badge)]

\* ----------------------------------------------------------- badge evaluator
Week == 7
Month == 30

_check_category_score(progress, category, threshold) ==
    LET recent_records == LastN(progress.analysis_records, 3)
    IN  \E i \in 1 .. Len(recent_records) :
            LET cs == recent_records[i].category_scores
            IN  /\ cs # None
                /\ DOMAIN cs[1] # {}
                /\ category \in DOMAIN cs[1]
                /\ cs[1][category] >= threshold

\* AnalysisCountCondition with a strict comparison.
AnalysisCountCondition_strict(progress) == progress.total_analyses > 1

\* The branch of _check_badge_condition for "analysis_count >= 1".
AnalysisCountCondition(progress) == progress.total_analyses >= 1

\* WeeklyAnalysesCondition that is content with two records.
WeeklyAnalysesCondition_two(progress, t) ==
    LET week_ago == t - Week
        weekly_count == CountSince(progress, week_ago)
    IN  weekly_count >= 2

\* The branch of _check_badge_condition for "weekly_analyses >= 3".
WeeklyAnalysesCondition(progress, t) ==
    LET week_ago == t - Week
        weekly_count == CountSince(progress, week_ago)
    IN  weekly_count >= 3

\* ScoreImprovementCondition with a strict comparison.
ScoreImprovementCondition_strict(progress) ==
    IF Len(progress.analysis_records) < 5 THEN FALSE
    ELSE LET recent_scores ==
                 [i \in 1 .. 5 |->
                    LastN(progress.analysis_records, 5)[i].overall_score]
             early_scores ==
                 [i \in 1 .. 5 |->
                    FirstN(progress.analysis_records, 5)[i].overall_score]
             improvement == SeqMax(recent_scores) - SeqMax(early_scores)
         IN  improvement > 20

\* The branch of _check_badge_condition for "score_improvement >= 20".
ScoreImprovementCondition(progress) ==
    IF Len(progress.analysis_records) < 5 THEN FALSE
    ELSE LET recent_scores ==
                 [i \in 1 .. 5 |->
                    LastN(progress.analysis_records, 5)[i].overall_score]
             early_scores ==
                 [i \in 1 .. 5 |->
                    FirstN(progress.analysis_records, 5)[i].overall_score]
             improvement == SeqMax(recent_scores) - SeqMax(early_scores)
         IN  improvement >= 20

\* PerfectScoreCondition with a strict comparison.
PerfectScoreCondition_strict(progress) ==
    LET recent_records == LastN(progress.analysis_records, 3)
    IN  \E i \in 1 .. Len(recent_records) :
            recent_records[i].overall_score > 95

\* The branch of _check_badge_condition for "overall_score >= 95".
PerfectScoreCondition(progress) ==
    LET recent_records == LastN(progress.analysis_records, 3)
    IN  \E i \in 1 .. Len(recent_records) :
            recent_records[i].overall_score >= 95

\* OtherCondition that evaluates "all_categories_above_80" on the last
\* record.
OtherCondition_all_categories(progress, condition) ==
    /\ condition = "all_categories_above_80"
    /\ progress.analysis_records # << >>
    /\ LET cs == progress.analysis_records[
                    Len(progress.analysis_records)].category_scores
       IN  /\ cs # None
           /\ DOMAIN cs[1] # {}
           /\ \A category \in DOMAIN cs[1] : cs[1][category] > 80

\* The end of _check_badge_condition, reached by a condition that no branch
\* matches.
OtherCondition(progress, condition) == FALSE

\* t is the value datetime.now() returns inside the condition check.
_check_badge_condition(progress, condition, t) ==
    IF condition = "analysis_count >= 1" THEN
        AnalysisCountCondition(progress)
    ELSE IF condition = "weekly_analyses >= 3" THEN
        WeeklyAnalysesCondition(progress, t)
    ELSE IF condition = "monthly_analyses >= 8" THEN
        LET month_ago == t - Month
            monthly_count == CountSince(progress, month_ago)
        IN  monthly_count >= 8
    ELSE IF condition = "score_improvement >= 20" THEN
        ScoreImprovementCondition(progress)
    ELSE IF condition = "overall_score >= 95" THEN
        PerfectScoreCondition(progress)
    ELSE IF condition = "total_analyses >= 50" THEN
        progress.total_analyses >= 50
    ELSE IF condition = "stance_score >= 90" THEN
        _check_category_score(progress, "stance", 90)
    ELSE IF condition = "swing_score >= 85" THEN
        _check_category_score(progress, "swing_path", 85)
    ELSE IF condition = "balance_score >= 85" THEN
        _check_category_score(progress, "balance", 85)
    ELSE OtherCondition(progress, condition)

_award_badge_internal(progress, badge_id, t) ==
    IF badge_id \in DOMAIN badge_definitions
    THEN LET badge_def == badge_definitions[badge_id]
             badge == Badge(badge_id, badge_def.name, badge_def.description,
                            t, badge_def.icon)
         IN  [progress EXCEPT !.badges = Append(@, badge)]
    ELSE progress

\* AutoBadgeScan that does not skip the badges already earned.
RECURSIVE AutoBadgeScan_no_skip(_, _, _, _)
AutoBadgeScan_no_skip(progress, earned_badge_ids, i, t) ==
    IF i > Len(BadgeOrder) THEN progress
    ELSE LET badge_id == BadgeOrder[i]
             badge_def == badge_definitions[badge_id]
             awarded ==
                 IF ~badge_def.auto_award THEN progress
                 ELSE IF _check_badge_condition(progress,
                                                badge_def.condition, t)
                 THEN _award_badge_internal(progress, badge_id, t)
                 ELSE progress
         IN  AutoBadgeScan_no_skip(awarded, earned_badge_ids, i + 1, t)

\* The loop of _check_auto_badges from catalog position i on;
\* earned_badge_ids is the set computed once before the loop.
RECURSIVE AutoBadgeScan(_, _, _, _)
AutoBadgeScan(progress, earned_badge_ids, i, t) ==
    IF i > Len(BadgeOrder) THEN progress
    ELSE LET badge_id == BadgeOrder[i]
             badge_def == badge_definitions[badge_id]
             awarded ==
                 IF ~badge_def.auto_award THEN progress
                 ELSE IF badge_id \in earned_badge_ids THEN progress
                 ELSE IF _check_badge_condition(progress,
                                                badge_def.condition, t)
                 THEN _award_badge_internal(progress, badge_id, t)
                 ELSE progress
         IN  AutoBadgeScan(awarded, earned_badge_ids, i + 1, t)

_check_auto_badges(progress, t) ==
    AutoBadgeScan(progress, BadgeIds(progress), 1, t)

\* --------------------------------------------------------------- persistence
isoformat(t) == [iso |-> t]
fromisoformat(str) == str.iso

AnalysisRecord_to_dict(record) ==
    [session_id |-> record.session_id,
     date |-> isoformat(record.date),
     overall_score |-> record.overall_score,
     angle |-> record.angle,
     category_scores |->
        IF record.category_scores # None
           /\ DOMAIN record.category_scores[1] # {}
        THEN record.category_scores[1] ELSE << >>]

Badge_to_dict(badge) ==
    [id |-> badge.id, name |-> badge.name,
     description |-> badge.description,
     earned_date |-> isoformat(badge.earned_date), icon |-> badge.icon]

\* The dictionary _save_data dumps to the data file.
save_data(store) ==
    [user_id \in DOMAIN store |->
        LET progress == store[user_id]
        IN  [user_id |-> progress.user_id,
             total_analyses |-> progress.total_analyses,
             current_level |-> progress.current_level,
             experience_points |-> progress.experience_points,
             created_date |-> isoformat(progress.created_date),
             last_analysis_date |->
                IF progress.last_analysis_date # None
                THEN Some(isoformat(progress.last_analysis_date[1]))
                ELSE None,
             analysis_records |->
                [i \in 1 .. Len(progress.analysis_records) |->
                    AnalysisRecord_to_dict(progress.analysis_records[i])],
             badges |->
                [i \in 1 .. Len(progress.badges) |->
                    Badge_to_dict(progress.badges[i])]]]

\* The data file: it does not exist, cannot be opened, holds something that
\* is not JSON, holds the beginning of a dump, or holds a JSON dictionary.
NoFile == [kind |-> "missing", data |-> << >>]
UnreadableFile == [kind |-> "unreadable", data |-> << >>]
GarbageFile == [kind |-> "garbage", data |-> << >>]
PartialFile == [kind |-> "partial", data |-> << >>]
JsonFile(data) == [kind |-> "json", data |-> data]

\* The data file after a _save_data that met no error.
_save_data(store) == JsonFile(save_data(store))

\* dict.get(key, default)
Get(dict, key, default) == IF key \in DOMAIN dict THEN dict[key] ELSE default

\* AnalysisRecord(**record_data) and Badge(**badge_data) accept the dictionary.
RecordLoads(record_data) ==
    /\ "date" \in DOMAIN record_data
    /\ {"session_id", "date", "overall_score", "angle"}
          \subseteq DOMAIN record_data
    /\ DOMAIN record_data
          \subseteq {"session_id", "date", "overall_score", "angle",
                     "category_scores"}

BadgeLoads(badge_data) ==
    /\ "earned_date" \in DOMAIN badge_data
    /\ {"id", "name", "description", "earned_date"}
          \subseteq DOMAIN badge_data
    /\ DOMAIN badge_data
          \subseteq {"id", "name", "description", "earned_date", "icon"}

\* The body of the loop of _load_data raises nothing on the entry.
UserLoads(user_data) ==
    /\ "created_date" \in DOMAIN user_data
    /\ "user_id" \in DOMAIN user_data
    /\ DOMAIN user_data
          \subseteq {"user_id", "total_analyses", "current_level",
                     "experience_points", "analysis_records", "badges",
                     "created_date", "last_analysis_date"}
    /\ \A i \in DOMAIN Get(user_data, "analysis_records", << >>) :
          RecordLoads(user_data.analysis_records[i])
    /\ \A i \in DOMAIN Get(user_data, "badges", << >>) :
          BadgeLoads(user_data.badges[i])

\* The body of the loop of _load_data: UserProgress(**user_data) after the
\* conversions of dates, records and badges.
LoadUser(user_data) ==
    LET records == Get(user_data, "analysis_records", << >>)
        badges == Get(user_data, "badges", << >>)
        last == Get(user_data, "last_analysis_date", None)
    IN  [user_id |-> user_data.user_id,
         total_analyses |-> Get(user_data, "total_analyses", 0),
         current_level |-> Get(user_data, "current_level", 1),
         experience_points |-> Get(user_data, "experience_points", 0),
         created_date |-> fromisoformat(user_data.created_date),
         last_analysis_date |->
            IF last # None THEN Some(fromisoformat(last[1])) ELSE None,
         analysis_records |->
            [i \in 1 .. Len(records) |->
                AnalysisRecord(records[i].session_id,
                               fromisoformat(records[i].date),
                               records[i].overall_score, records[i].angle,
                               IF "category_scores" \in DOMAIN records[i]
                               THEN Some(records[i].category_scores)
                               ELSE None)],
         badges |->
            [i \in 1 .. Len(badges) |->
                Badge(badges[i].id, badges[i].name, badges[i].description,
                      fromisoformat(badges[i].earned_date),
                      Get(badges[i], "icon", "trophy"))]]

\* TryLoad that leaves out the entries it cannot convert.
TryLoad_skip_bad(file) ==
    IF file.kind # "json" THEN [raised |-> TRUE, value |-> << >>]
    ELSE [raised |-> FALSE,
          value |-> [user_id \in { u \in DOMAIN file.data :
                                     UserLoads(file.data[u]) } |->
                        LoadUser(file.data[user_id])]]

\* The try block of _load_data: whether it raises, and what it returns
\* when it does not.
TryLoad(file) ==
    IF file.kind # "json" THEN [raised |-> TRUE, value |-> << >>]
    ELSE IF \E user_id \in DOMAIN file.data : ~UserLoads(file.data[user_id])
    THEN [raised |-> TRUE, value |-> << >>]
    ELSE [raised |-> FALSE,
          value |-> [user_id \in DOMAIN file.data |->
                        LoadUser(file.data[user_id])]]

\* ProgressManager._load_data.
_load_data(file) ==
    IF file.kind = "missing" THEN << >>
    ELSE LET attempt == TryLoad(file)
         IN  IF attempt.raised THEN << >> ELSE attempt.value

\* -------------------------------------------------------------------- reads
\* The records of the aggregate dated since, in order.
RecordsSince(progress, since) ==
    SelectSeq(progress.analysis_records, LAMBDA record : record.date >= since)

\* round(n / m, 0) for m > 0: to the nearest integer, a tie to the even one.
Round(n, m) ==
    LET q == n \div m
        r == n % m
    IN  IF 2 * r < m THEN q
        ELSE IF 2 * r > m THEN q + 1
        ELSE IF q % 2 = 0 THEN q ELSE q + 1

\* _get_trend_description; more_than_ten is change_rate > 10.
_get_trend_description(trend, more_than_ten) ==
    IF trend = "improving"
    THEN IF more_than_ten THEN "Wonderful progress"
         ELSE "Steady improvement"
    ELSE IF trend = "declining"
    THEN "A little off form, go back to basics"
    ELSE "Stable performance"

\* _analyze_improvement_trends that asks for 2 records in total.
_analyze_improvement_trends_two(progress, t) ==
    IF Len(progress.analysis_records) < 2 THEN << >>
    ELSE LET recent_records == RecordsSince(progress, t - Month)
         IN  IF Len(recent_records) < 2 THEN << >>
             ELSE [overall |->
                     [trend |-> "stable", change_rate |-> 0,
                      description |->
                         _get_trend_description("stable", FALSE)]]

\* _analyze_improvement_trends that calls a fall of exactly 5 stable.
_analyze_improvement_trends_wide(progress, t) ==
    IF Len(progress.analysis_records) < 3 THEN << >>
    ELSE LET recent_records == RecordsSince(progress, t - Month)
         IN  IF Len(recent_records) < 2 THEN << >>
             ELSE LET first == recent_records[1].overall_score
                      last == recent_records[Len(recent_records)].overall_score
                      diff == last - first
                      trend == IF last > first THEN "improving"
                               ELSE IF (IF diff < 0 THEN -diff ELSE diff) <= 5
                               THEN "stable" ELSE "declining"
                 IN  [overall |->
                        [trend |-> trend, change_rate |-> 0,
                         description |->
                            _get_trend_description(trend, FALSE)]]

\* ProgressManager._analyze_improvement_trends at time t.  change_rate is
\* kept in tenths of a percent, which is what round(change_rate, 1) keeps.
_analyze_improvement_trends(progress, t) ==
    IF Len(progress.analysis_records) < 3 THEN << >>
    ELSE LET month_ago == t - Month
             recent_records == RecordsSince(progress, month_ago)
         IN  IF Len(recent_records) < 2 THEN << >>
             ELSE LET first == recent_records[1].overall_score
                      last == recent_records[Len(recent_records)].overall_score
                      diff == last - first
                      trend == IF last > first THEN "improving"
                               ELSE IF (IF diff < 0 THEN -diff ELSE diff) < 5
                               THEN "stable" ELSE "declining"
                      change_rate == IF first > 0
                                     THEN Round(diff * 1000, first) ELSE 0
                      more_than_ten == first > 0 /\ diff * 100 > 10 * first
                 IN  [overall |->
                        [trend |-> trend, change_rate |-> change_rate,
                         description |->
                            _get_trend_description(trend, more_than_ten)]]

\* ProgressManager._get_score_history: the last ten records.
_get_score_history(progress) ==
    LET records == LastN(progress.analysis_records, 10)
    IN  [i \in 1 .. Len(records) |->
            [date |-> isoformat(records[i].date),
             overall_score |-> records[i].overall_score,
             angle |-> records[i].angle,
             session_id |-> records[i].session_id]]

\* _get_next_level_requirements that repeats the top level's requirements
\* at the top.
_get_next_level_requirements_repeat(current_level) ==
    LET next_level == IF current_level + 1 \in DOMAIN level_requirements
                      THEN current_level + 1 ELSE current_level
        req == level_requirements[next_level]
    IN  [level |-> next_level, name |-> req.name,
         points_needed |-> req.min_points,
         analyses_needed |-> req.min_analyses,
         description |-> "Almost at level " \o ToString(next_level)
                           \o " " \o req.name]

\* ProgressManager._get_next_level_requirements.
_get_next_level_requirements(current_level) ==
    LET next_level == current_level + 1
    IN  IF next_level \in DOMAIN level_requirements
        THEN LET req == level_requirements[next_level]
             IN  [level |-> next_level, name |-> req.name,
                  points_needed |-> req.min_points,
                  analyses_needed |-> req.min_analyses,
                  description |-> "Almost at level " \o ToString(next_level)
                                    \o " " \o req.name]
        ELSE [level |-> current_level, name |-> "Highest level",
              points_needed |-> 0, analyses_needed |-> 0,
              description |-> "Congratulations, highest level reached"]

\* The dictionary get_user_progress returns for a known user at time t.
ProgressView(store, user_id, t) ==
    LET progress == store[user_id]
    IN  [user_id |-> user_id,
         total_analyses |-> progress.total_analyses,
         current_level |-> progress.current_level,
         experience_points |-> progress.experience_points,
         badges |-> [i \in 1 .. Len(progress.badges) |->
                        Badge_to_dict(progress.badges[i])],
         score_history |-> _get_score_history(progress),
         improvement_trends |-> _analyze_improvement_trends(progress, t),
         next_level_requirements |->
            _get_next_level_requirements(progress.current_level),
         last_analysis_date |->
            IF progress.last_analysis_date # None
            THEN Some(isoformat(progress.last_analysis_date[1]))
            ELSE None]

\* ------------------------------------------------------------------- state
NoResult ==
    [op |-> "none", user_id |-> "", ok |-> FALSE, exp_gained |-> 0,
     new_level |-> None, new_badges |-> << >>]

\* No _save_data is in progress.
NoSave == [at |-> "idle", ret |-> NoResult]

TotalRecords ==
    LET RECURSIVE Sum(_)
        Sum(S) == IF S = {} THEN 0
                  ELSE LET u == CHOOSE x \in S : TRUE
                       IN  progress_data[u].total_analyses + Sum(S \ {u})
    IN  Sum(DOMAIN progress_data)

\* A ProgressManager constructed over a data file that does not exist.
\* The two callers of the concurrent deployment.
Threads == {"t1", "t2"}

\* No call in flight: the locals of add_analysis_record and award_badge.
\* ref says which object the local `progress` is bound to: the one the map
\* holds for user_id ("map"), or one the map no longer holds, kept in own.
IdleCall ==
    [pc |-> "idle", op |-> "none", user_id |-> "", session_id |-> "",
     score |-> 0, badge_id |-> "", ref |-> "none", own |-> None,
     read |-> 0, exp_gained |-> 0, new_level |-> 0, ok |-> FALSE]

\* The manager is called directly, one call at a time.
NoRace ==
    /\ serving = "direct"
    /\ calls = [t \in Threads |-> IdleCall]
    /\ returned = << >>

Init ==
    /\ now = 0
    /\ progress_data = << >>
    /\ data_file = NoFile
    /\ saves = 0
    /\ result = NoResult
    /\ saving = NoSave
    /\ NoRace

\* ----------------------------------------------------------------- actions
\* Time passes between two calls, up to the limit.
Advance(d, limit) ==
    /\ saving = NoSave
    /\ now + d <= limit
    /\ now' = now + d
    /\ UNCHANGED << progress_data, data_file, saves, result, saving, race >>

Tick(d) == Advance(d, MaxTime)

\* ProgressManager.__init__: the store is read from the data file.
Construct ==
    /\ saving = NoSave
    /\ progress_data' = _load_data(data_file)
    /\ result' = [NoResult EXCEPT !.op = "__init__"]
    /\ UNCHANGED << now, data_file, saves, saving, race >>

\* ProgressManager.get_user_progress: the result carries the returned value,
\* None or the dictionary.
get_user_progress(user_id) ==
    /\ saving = NoSave
    /\ result' = [op |-> "get_user_progress", user_id |-> user_id,
                  ok |-> user_id \in DOMAIN progress_data,
                  exp_gained |-> 0, new_level |-> None, new_badges |-> << >>,
                  value |-> IF user_id \notin DOMAIN progress_data THEN None
                            ELSE Some(ProgressView(progress_data, user_id,
                                                   now))]
    /\ UNCHANGED << now, progress_data, data_file, saves, saving, race >>

\* GetOrCreate that starts a fresh aggregate in every call.
GetOrCreate_always_new(store, user_id, t) ==
    [u \in DOMAIN store \cup {user_id} |->
        IF u = user_id THEN UserProgress(user_id, t) ELSE store[u]]

\* add_analysis_record, "user existence check": the store after it.
GetOrCreate(store, user_id, t) ==
    IF user_id \notin DOMAIN store
    THEN store @@ (user_id :> UserProgress(user_id, t))
    ELSE store

\* AppendRecord without the increment of total_analyses.
AppendRecord_no_count(progress, record, exp_gained, t) ==
    [progress EXCEPT !.analysis_records = Append(@, record),
                     !.last_analysis_date = Some(t),
                     !.experience_points = @ + exp_gained]

\* AppendRecord without the addition of the experience gained.
AppendRecord_no_exp(progress, record, exp_gained, t) ==
    [progress EXCEPT !.analysis_records = Append(@, record),
                     !.total_analyses = @ + 1,
                     !.last_analysis_date = Some(t)]

\* add_analysis_record, "append record", "update statistics" and "add
\* experience": the aggregate after them.
AppendRecord(progress, record, exp_gained, t) ==
    [progress EXCEPT !.analysis_records = Append(@, record),
                     !.total_analyses = @ + 1,
                     !.last_analysis_date = Some(t),
                     !.experience_points = @ + exp_gained]

\* LevelUp that, whenever the scan returns a level, stores the position of
\* that level in the catalog counted from zero.
LevelUp_catalog_index(progress, new_level, t) ==
    IF new_level >= 1
    THEN _award_level_up_badge(
             [progress EXCEPT !.current_level = new_level - 1], new_level, t)
    ELSE progress

\* LevelUp whose test also succeeds when the level is unchanged.
LevelUp_on_tie(progress, new_level, t) ==
    IF new_level >= progress.current_level
    THEN _award_level_up_badge([progress EXCEPT !.current_level = new_level],
                               new_level, t)
    ELSE progress

\* add_analysis_record, "level-up check": the aggregate after it.
LevelUp(progress, new_level, t) ==
    IF new_level > progress.current_level
    THEN _award_level_up_badge([progress EXCEPT !.current_level = new_level],
                               new_level, t)
    ELSE progress

\* The new_level entry of the dictionary add_analysis_record returns,
\* computed from the aggregate as it is when the call returns.
ReturnedNewLevel(progress, new_level) ==
    IF new_level > progress.current_level THEN Some(new_level) ELSE None

\* The body of add_analysis_record up to the call of _save_data: the store
\* it leaves in memory, the clock, and the dictionary it is going to return.
AddCall(user_id, session_id, score, angle, category_scores, d) ==
    LET t0 == now
        t1 == now + d
        store == GetOrCreate(progress_data, user_id, t0)
        record == AnalysisRecord(session_id, t0, score, angle,
                                 category_scores)
        exp_gained == _calculate_experience_points(score)
        appended == AppendRecord(store[user_id], record, exp_gained, t1)
        new_level == _check_level_up(appended)
        levelled == LevelUp(appended, new_level, t1)
        progress == _check_auto_badges(levelled, t1)
    IN  [store |-> [store EXCEPT ![user_id] = progress],
         clock |-> t1,
         ret |-> [op |-> "add_analysis_record", user_id |-> user_id,
                  ok |-> TRUE, exp_gained |-> exp_gained,
                  new_level |-> ReturnedNewLevel(progress, new_level),
                  new_badges |-> << >>]]

\* ProgressManager.add_analysis_record.  The clock is read on entry (the
\* creation date of a new aggregate and the date of the record) and again,
\* d days later, from the update of last_analysis_date on.
add_analysis_record(user_id, session_id, score, angle, category_scores, d) ==
    /\ saving = NoSave
    /\ d > 0 => now + d <= MaxTime
    /\ now' = now + d
    /\ saves' = saves + 1
    /\ UNCHANGED << saving, race >>
    /\ \E c \in {AddCall(user_id, session_id, score, angle,
                          category_scores, d)} :
          /\ progress_data' = c.store
          /\ data_file' = _save_data(progress_data')
          /\ result' = c.ret

\* award_badge without the test that the id is in the catalog: the internal
\* award then appends nothing, but the call saves and reports success.
award_badge_no_catalog_check(user_id, badge_id) ==
    LET Return(ok) == [op |-> "award_badge", user_id |-> user_id, ok |-> ok,
                       exp_gained |-> 0, new_level |-> None,
                       new_badges |-> << >>]
    IN  IF user_id \notin DOMAIN progress_data THEN
            /\ result' = Return(FALSE)
            /\ UNCHANGED << now, progress_data, data_file, saves, saving, race >>
        ELSE IF badge_id \in BadgeIds(progress_data[user_id]) THEN
            /\ result' = Return(FALSE)
            /\ UNCHANGED << now, progress_data, data_file, saves, saving, race >>
        ELSE
            /\ progress_data' =
                 [progress_data EXCEPT
                    ![user_id] = _award_badge_internal(@, badge_id, now)]
            /\ data_file' = _save_data(progress_data')
            /\ saves' = saves + 1
            /\ result' = Return(TRUE)
            /\ UNCHANGED << now, saving, race >>

\* award_badge without the "already earned" test.
award_badge_no_earned_check(user_id, badge_id) ==
    LET Return(ok) == [op |-> "award_badge", user_id |-> user_id, ok |-> ok,
                       exp_gained |-> 0, new_level |-> None,
                       new_badges |-> << >>]
    IN  IF user_id \notin DOMAIN progress_data
           \/ badge_id \notin DOMAIN badge_definitions THEN
            /\ result' = Return(FALSE)
            /\ UNCHANGED << now, progress_data, data_file, saves, saving, race >>
        ELSE
            /\ progress_data' =
                 [progress_data EXCEPT
                    ![user_id] = _award_badge_internal(@, badge_id, now)]
            /\ data_file' = _save_data(progress_data')
            /\ saves' = saves + 1
            /\ result' = Return(TRUE)
            /\ UNCHANGED << now, saving, race >>

\* The body of award_badge up to the call of _save_data: whether the badge
\* is awarded, the store it leaves in memory, and the value it is going to
\* return.
AwardCall(user_id, badge_id) ==
    LET Return(ok) == [op |-> "award_badge", user_id |-> user_id, ok |-> ok,
                       exp_gained |-> 0, new_level |-> None,
                       new_badges |-> << >>]
        Refuse == [ok |-> FALSE, store |-> progress_data,
                   ret |-> Return(FALSE)]
    IN  IF user_id \notin DOMAIN progress_data THEN Refuse
        ELSE IF badge_id \notin DOMAIN badge_definitions THEN Refuse
        ELSE IF badge_id \in BadgeIds(progress_data[user_id]) THEN Refuse
        ELSE [ok |-> TRUE,
              store |-> [progress_data EXCEPT
                           ![user_id] =
                              _award_badge_internal(@, badge_id, now)],
              ret |-> Return(TRUE)]

\* ProgressManager.award_badge.
award_badge(user_id, badge_id) ==
    \E c \in {AwardCall(user_id, badge_id)} :
        /\ saving = NoSave
        /\ IF ~c.ok THEN
              /\ result' = c.ret
              /\ UNCHANGED << now, progress_data, data_file, saves, saving, race >>
           ELSE
              /\ progress_data' = c.store
              /\ data_file' = _save_data(progress_data')
              /\ saves' = saves + 1
              /\ result' = c.ret
              /\ UNCHANGED << now, saving, race >>

\* add_analysis_record up to the call of _save_data.
BeginAdd(user_id, session_id, score, angle, category_scores) ==
    \E c \in {AddCall(user_id, session_id, score, angle,
                       category_scores, 0)} :
        /\ saving = NoSave
        /\ now' = c.clock
        /\ progress_data' = c.store
        /\ saving' = [at |-> "open", ret |-> c.ret]
        /\ UNCHANGED race
        /\ UNCHANGED << data_file, saves, result >>

\* award_badge up to the call of _save_data, or to its return of False.
BeginAward(user_id, badge_id) ==
    \E c \in {AwardCall(user_id, badge_id)} :
        /\ saving = NoSave
        /\ IF ~c.ok THEN
              /\ result' = c.ret
              /\ UNCHANGED << now, progress_data, data_file, saves, saving, race >>
           ELSE
              /\ progress_data' = c.store
              /\ saving' = [at |-> "open", ret |-> c.ret]
              /\ UNCHANGED race
              /\ UNCHANGED << now, data_file, saves, result >>

\* _save_data: open(self.data_file, 'w') truncates the file.
OpenFile ==
    /\ saving.at = "open"
    /\ data_file' = PartialFile
    /\ saving' = [saving EXCEPT !.at = "dump"]
    /\ UNCHANGED race
    /\ UNCHANGED << now, progress_data, saves, result >>

\* _save_data: open raises; the except clause prints and the caller returns.
OpenFails ==
    /\ saving.at = "open"
    /\ result' = saving.ret
    /\ saving' = NoSave
    /\ UNCHANGED race
    /\ UNCHANGED << now, progress_data, data_file, saves >>

\* _save_data: json.dump writes the store; the caller returns.
DumpFile ==
    /\ saving.at = "dump"
    /\ data_file' = _save_data(progress_data)
    /\ saves' = saves + 1
    /\ result' = saving.ret
    /\ saving' = NoSave
    /\ UNCHANGED race
    /\ UNCHANGED << now, progress_data >>

\* _save_data: json.dump raises part way; the except clause prints and the
\* caller returns.
DumpFails ==
    /\ saving.at = "dump"
    /\ result' = saving.ret
    /\ saving' = NoSave
    /\ UNCHANGED race
    /\ UNCHANGED << now, progress_data, data_file, saves >>

\* ------------------------------------------------------------ specifications
TickStep == \E d \in TickDays : Tick(d)

AddStep ==
    /\ TotalRecords < MaxRecords
    /\ \E user_id \in Users, session_id \in SessionIds, r \in Requests,
          d \in CallDelays :
          add_analysis_record(user_id, session_id, r.score, r.angle,
                              r.category_scores, d)

AwardStep ==
    \E user_id \in Users, badge_id \in ManualBadgeIds :
        award_badge(user_id, badge_id)

Next == TickStep \/ AddStep \/ AwardStep

Spec == Init /\ [][Next]_vars

\* One user over several weeks: calls days apart, manual awards in between
\* (for the known user and for an unknown one).
WeekAddStep ==
    /\ TotalRecords < MaxWeekRecords
    /\ \E r \in Requests, d \in CallDelays :
          add_analysis_record("u1", "s1", r.score, r.angle,
                              r.category_scores, d)

NextWeek == TickStep \/ WeekAddStep \/ AwardStep

SpecWeek == Init /\ [][NextWeek]_vars

\* One user is taken to level 2 and beyond: calls with a low and a high score,
\* manual awards in between.
LevelAddStep ==
    /\ TotalRecords < MaxLevelRecords
    /\ \E score \in LevelScores :
          add_analysis_record("u1", "s1", score, "front", None, 0)

LevelAwardStep ==
    \E badge_id \in LevelBadgeIds : award_badge("u1", badge_id)

NextLevel == LevelAddStep \/ LevelAwardStep

SpecLevel == Init /\ [][NextLevel]_vars

\* Calls with every score of a range around [0, 100].
ExpAddStep ==
    /\ TotalRecords < MaxExpRecords
    /\ \E score \in ExpScores :
          add_analysis_record("u1", "s1", score, "front", None, 0)

NextExp == ExpAddStep

SpecExp == Init /\ [][NextExp]_vars

\* The process starts over a data file that is missing, unreadable or
\* malformed; calls, reads and restarts follow.
StoredUser ==
    LET record == AnalysisRecord("s1", 0, 95, "side", None)
        progress == _check_auto_badges(
                        AppendRecord(UserProgress("u1", 0), record,
                                     _calculate_experience_points(95), 0), 0)
    IN  save_data([user_id \in {"u1"} |-> progress])["u1"]

\* A JSON file whose entry of u2 lacks created_date and the collections.
MalformedFile ==
    JsonFile([user_id \in {"u1", "u2"} |->
                IF user_id = "u1" THEN StoredUser
                ELSE [user_id |-> "u2", total_analyses |-> 3]])

InitialFiles ==
    {NoFile, UnreadableFile, GarbageFile, PartialFile, MalformedFile}

InitLoad ==
    /\ now = 0
    /\ data_file \in InitialFiles
    /\ progress_data = _load_data(data_file)
    /\ saves = 0
    /\ result = [NoResult EXCEPT !.op = "__init__"]
    /\ saving = NoSave
    /\ NoRace

LoadAddStep ==
    /\ TotalRecords < MaxLoadRecords
    /\ \E user_id \in Users, r \in Requests :
          add_analysis_record(user_id, "s1", r.score, r.angle,
                              r.category_scores, 0)

GetStep == \E user_id \in Users : get_user_progress(user_id)

RestartStep == Construct

NextLoad == LoadAddStep \/ AwardStep \/ GetStep \/ RestartStep

SpecLoad == InitLoad /\ [][NextLoad]_vars

\* One user over two months: calls and reads weeks apart, reads for a user
\* who never had a call.
TrendTickStep == \E d \in TrendTickDays : Advance(d, MaxTrendTime)

TrendAddStep ==
    /\ TotalRecords < MaxTrendRecords
    /\ \E score \in TrendScores :
          add_analysis_record("u1", "s1", score, "front", None, 0)

NextTrend == TrendTickStep \/ TrendAddStep \/ GetStep

SpecTrend == Init /\ [][NextTrend]_vars

\* The steps of _save_data taken apart, with the errors of the file system.
BeginAddStep ==
    /\ TotalRecords < MaxSaveRecords
    /\ \E user_id \in Users, r \in Requests :
          BeginAdd(user_id, "s1", r.score, r.angle, r.category_scores)

BeginAwardStep ==
    \E user_id \in Users, badge_id \in ManualBadgeIds :
        BeginAward(user_id, badge_id)

NextSave ==
    \/ BeginAddStep
    \/ BeginAwardStep
    \/ OpenFile
    \/ OpenFails
    \/ DumpFile
    \/ DumpFails

SpecSave == Init /\ [][NextSave]_vars

\* One user whose scores differ by 19 or 20: the fifth call and beyond.
ImproveAddStep ==
    /\ TotalRecords < MaxImproveRecords
    /\ \E score \in ImproveScores :
          add_analysis_record("u1", "s1", score, "side", None, 0)

NextImprove == ImproveAddStep

SpecImprove == Init /\ [][NextImprove]_vars

\* One user with every category above 80, and manual awards of
\* improvement_champion.
ChampionAddStep ==
    /\ TotalRecords < MaxChampionRecords
    /\ \E category_scores \in ChampionCategoryScores :
          add_analysis_record("u1", "s1", 85, "side", category_scores, 0)

ChampionAwardStep ==
    \E user_id \in Users : award_badge(user_id, "improvement_champion")

NextChampion == ChampionAddStep \/ ChampionAwardStep

SpecChampion == Init /\ [][NextChampion]_vars

\* One user goes on calling, up to the top level: the scores of the first
\* calls vary, then every call gets the score of the one before.
ClimbAddStep ==
    /\ TotalRecords < MaxClimbRecords
    /\ \E score \in ClimbScores :
          /\ IF "u1" \notin DOMAIN progress_data THEN TRUE
             ELSE LET records == progress_data["u1"].analysis_records
                  IN  IF Len(records) < MaxFreeRecords THEN TRUE
                      ELSE score = records[Len(records)].overall_score
          /\ add_analysis_record("u1", "s1", score, "side", None, 0)

ClimbGetStep == get_user_progress("u1")

NextClimb == ClimbAddStep \/ ClimbGetStep

SpecClimb == Init /\ [][NextClimb]_vars

\* The caller keeps calling add_analysis_record: weak fairness of
\* ClimbAddStep, WF_vars(ClimbAddStep), with ENABLED ClimbAddStep written out
\* as its guard (a further call is possible while the record bound is not
\* reached).
SpecClimbLive ==
    /\ Init /\ [][NextClimb]_vars
    /\ ([]<>(TotalRecords >= MaxClimbRecords) \/ []<><<ClimbAddStep>>_vars)

\* --------------------------------------- calls run statement by statement
\* add_analysis_record and award_badge executed one statement at a time by
\* the callers of Threads.  The deployment is one of Servings: "threads"
\* lets the calls interleave freely, "per_user" starts a call only when no
\* other call for the same user is in flight, "event_loop" is the API layer
\* of main.py, where a coroutine keeps the loop until it awaits.
RaceScores == {95}
RaceBadgeIds == {"consistent_week"}
Servings == {"threads", "per_user", "event_loop"}

\* SuspensionPoints with an await before the append of the record.
SuspensionPoints_before_append == {"append"}

\* The statements of a call before which the handlers award_badge and
\* save_analysis_progress of main.py await: there is none.
SuspensionPoints == {}

InFlight(t) == calls[t].pc \notin {"idle", "queued"}

\* The call holds the event loop.
Running(t) == InFlight(t) /\ calls[t].pc \notin SuspensionPoints

Submitted ==
    Len(returned) + Cardinality({ t \in Threads : calls[t].pc # "idle" })

\* Conflicts of a caller that does not serialize.
Conflicts_never(t) == FALSE

\* Another call for the same user is in flight.
Conflicts(t) ==
    \E o \in Threads \ {t} :
        InFlight(o) /\ calls[o].user_id = calls[t].user_id

\* The loop is free for caller t: no other coroutine is running.
LoopFree(t) == \A o \in Threads \ {t} : ~Running(o)

MayStart(t) ==
    CASE serving = "threads" -> TRUE
      [] serving = "per_user" -> ~Conflicts(t)
      [] serving = "event_loop" -> LoopFree(t)
      [] OTHER -> FALSE

\* Caller t is at statement pc and is scheduled.
At(t, pc) ==
    /\ calls[t].pc = pc
    /\ serving = "event_loop" => LoopFree(t)

\* The object the local `progress` of caller t is bound to.
Target(t) ==
    IF calls[t].ref = "map" THEN progress_data[calls[t].user_id]
    ELSE calls[t].own[1]

\* Caller t mutates its object into value and goes on as next; the map
\* changes only if it still holds that object.
Write(t, value, next) ==
    IF calls[t].ref = "map"
    THEN /\ progress_data' =
              [progress_data EXCEPT ![calls[t].user_id] = value]
         /\ calls' = [calls EXCEPT ![t] = next]
    ELSE /\ calls' = [calls EXCEPT ![t] = [next EXCEPT !.own = Some(value)]]
         /\ UNCHANGED progress_data

\* Caller t goes on as next and changes no object.
Goto(t, next) ==
    /\ calls' = [calls EXCEPT ![t] = next]
    /\ UNCHANGED << now, progress_data, data_file, saves, result, saving,
                    serving, returned >>

\* save_analysis_progress is scheduled as a background task.
SubmitAdd(t) ==
    /\ serving # "direct"
    /\ calls[t].pc = "idle"
    /\ Submitted < MaxRaceCalls
    /\ \E user_id \in Users, score \in RaceScores :
          Goto(t, [IdleCall EXCEPT !.pc = "queued",
                                   !.op = "add_analysis_record",
                                   !.user_id = user_id,
                                   !.session_id = "s1",
                                   !.score = score])

\* A request for the award_badge handler arrives.
SubmitAward(t) ==
    /\ serving # "direct"
    /\ calls[t].pc = "idle"
    /\ Submitted < MaxRaceCalls
    /\ \E user_id \in Users, badge_id \in RaceBadgeIds :
          Goto(t, [IdleCall EXCEPT !.pc = "queued",
                                   !.op = "award_badge",
                                   !.user_id = user_id,
                                   !.badge_id = badge_id])

\* The call of the manager begins.
Start(t) ==
    /\ calls[t].pc = "queued"
    /\ MayStart(t)
    /\ Goto(t, [calls[t] EXCEPT
                  !.pc = IF calls[t].op = "add_analysis_record"
                         THEN "check" ELSE "a_user"])

\* add_analysis_record: if user_id not in self.progress_data
Check(t) ==
    /\ At(t, "check")
    /\ Goto(t, [calls[t] EXCEPT
                  !.pc = IF calls[t].user_id \in DOMAIN progress_data
                         THEN "bind" ELSE "create"])

\* add_analysis_record: self.progress_data[user_id] = UserProgress(...).
\* A caller bound to the object the map held keeps that object.
Create(t) ==
    /\ At(t, "create")
    /\ LET user_id == calls[t].user_id
       IN  /\ progress_data' =
                (user_id :> UserProgress(user_id, now)) @@ progress_data
           /\ calls' =
                [o \in Threads |->
                   IF o = t THEN [calls[t] EXCEPT !.pc = "bind"]
                   ELSE IF calls[o].ref = "map" /\ calls[o].user_id = user_id
                        THEN [calls[o] EXCEPT
                                !.ref = "own",
                                !.own = Some(progress_data[user_id])]
                        ELSE calls[o]]
    /\ UNCHANGED << now, data_file, saves, result, saving, serving,
                    returned >>

\* add_analysis_record: progress = self.progress_data[user_id]
Bind(t) ==
    /\ At(t, "bind")
    /\ Goto(t, [calls[t] EXCEPT !.pc = "append", !.ref = "map",
                                !.own = None])

\* add_analysis_record: progress.analysis_records.append(record)
AppendStmt(t) ==
    /\ At(t, "append")
    /\ Write(t,
             [Target(t) EXCEPT
                !.analysis_records =
                   Append(@, AnalysisRecord(calls[t].session_id, now,
                                            calls[t].score, "side", None))],
             [calls[t] EXCEPT !.pc = "count_read"])
    /\ UNCHANGED << now, data_file, saves, result, saving, serving,
                    returned >>

\* add_analysis_record: progress.total_analyses += 1, the read.
CountRead(t) ==
    /\ At(t, "count_read")
    /\ Goto(t, [calls[t] EXCEPT !.pc = "count_write",
                                !.read = Target(t).total_analyses])

\* add_analysis_record: progress.total_analyses += 1, the write.
CountWrite(t) ==
    /\ At(t, "count_write")
    /\ Write(t, [Target(t) EXCEPT !.total_analyses = calls[t].read + 1],
             [calls[t] EXCEPT !.pc = "last"])
    /\ UNCHANGED << now, data_file, saves, result, saving, serving,
                    returned >>

\* add_analysis_record: progress.last_analysis_date = datetime.now()
LastDate(t) ==
    /\ At(t, "last")
    /\ Write(t, [Target(t) EXCEPT !.last_analysis_date = Some(now)],
             [calls[t] EXCEPT !.pc = "exp_read"])
    /\ UNCHANGED << now, data_file, saves, result, saving, serving,
                    returned >>

\* add_analysis_record: exp_gained = ..., and the read of
\* progress.experience_points += exp_gained.
ExpRead(t) ==
    /\ At(t, "exp_read")
    /\ Goto(t, [calls[t] EXCEPT
                  !.pc = "exp_write",
                  !.exp_gained = _calculate_experience_points(calls[t].score),
                  !.read = Target(t).experience_points])

\* add_analysis_record: progress.experience_points += exp_gained, the write.
ExpWrite(t) ==
    /\ At(t, "exp_write")
    /\ Write(t,
             [Target(t) EXCEPT
                !.experience_points = calls[t].read + calls[t].exp_gained],
             [calls[t] EXCEPT !.pc = "level"])
    /\ UNCHANGED << now, data_file, saves, result, saving, serving,
                    returned >>

\* add_analysis_record: new_level = self._check_level_up(progress)
Level(t) ==
    /\ At(t, "level")
    /\ Goto(t, [calls[t] EXCEPT !.pc = "levelup",
                                !.new_level = _check_level_up(Target(t))])

\* add_analysis_record: if new_level > progress.current_level: ...
LevelUpStmt(t) ==
    /\ At(t, "levelup")
    /\ Write(t, LevelUp(Target(t), calls[t].new_level, now),
             [calls[t] EXCEPT !.pc = "badges"])
    /\ UNCHANGED << now, data_file, saves, result, saving, serving,
                    returned >>

\* add_analysis_record: self._check_auto_badges(progress)
Badges(t) ==
    /\ At(t, "badges")
    /\ Write(t, _check_auto_badges(Target(t), now),
             [calls[t] EXCEPT !.pc = "save"])
    /\ UNCHANGED << now, data_file, saves, result, saving, serving,
                    returned >>

\* award_badge: if user_id not in self.progress_data: return False
AwardUser(t) ==
    /\ At(t, "a_user")
    /\ Goto(t, IF calls[t].user_id \in DOMAIN progress_data
               THEN [calls[t] EXCEPT !.pc = "a_catalog"]
               ELSE [calls[t] EXCEPT !.pc = "return", !.ok = FALSE])

\* award_badge: if badge_id not in self.badge_definitions: return False
AwardCatalog(t) ==
    /\ At(t, "a_catalog")
    /\ Goto(t, IF calls[t].badge_id \in DOMAIN badge_definitions
               THEN [calls[t] EXCEPT !.pc = "a_bind"]
               ELSE [calls[t] EXCEPT !.pc = "return", !.ok = FALSE])

\* award_badge: progress = self.progress_data[user_id]
AwardBind(t) ==
    /\ At(t, "a_bind")
    /\ Goto(t, [calls[t] EXCEPT !.pc = "a_test", !.ref = "map",
                                !.own = None])

\* award_badge: if badge_id in earned_badge_ids: return False
AwardTest(t) ==
    /\ At(t, "a_test")
    /\ Goto(t, IF calls[t].badge_id \in BadgeIds(Target(t))
               THEN [calls[t] EXCEPT !.pc = "return", !.ok = FALSE]
               ELSE [calls[t] EXCEPT !.pc = "a_append"])

\* award_badge: self._award_badge_internal(progress, badge_id)
AwardAppend(t) ==
    /\ At(t, "a_append")
    /\ Write(t, _award_badge_internal(Target(t), calls[t].badge_id, now),
             [calls[t] EXCEPT !.pc = "save", !.ok = TRUE])
    /\ UNCHANGED << now, data_file, saves, result, saving, serving,
                    returned >>

\* add_analysis_record and award_badge: self._save_data()
Save(t) ==
    /\ At(t, "save")
    /\ data_file' = _save_data(progress_data)
    /\ saves' = saves + 1
    /\ calls' = [calls EXCEPT ![t].pc = "return"]
    /\ UNCHANGED << now, progress_data, result, saving, serving, returned >>

\* add_analysis_record and award_badge: return
Return(t) ==
    /\ At(t, "return")
    /\ result' =
         IF calls[t].op = "add_analysis_record"
         THEN [op |-> "add_analysis_record", user_id |-> calls[t].user_id,
               ok |-> TRUE, exp_gained |-> calls[t].exp_gained,
               new_level |-> ReturnedNewLevel(Target(t), calls[t].new_level),
               new_badges |-> << >>]
         ELSE [op |-> "award_badge", user_id |-> calls[t].user_id,
               ok |-> calls[t].ok, exp_gained |-> 0, new_level |-> None,
               new_badges |-> << >>]
    /\ returned' = Append(returned, [op |-> calls[t].op,
                                     user_id |-> calls[t].user_id,
                                     score |-> calls[t].score])
    /\ calls' = [calls EXCEPT ![t] = IdleCall]
    /\ UNCHANGED << now, progress_data, data_file, saves, saving, serving >>

InitRace ==
    /\ now = 0
    /\ progress_data = << >>
    /\ data_file = NoFile
    /\ saves = 0
    /\ result = NoResult
    /\ saving = NoSave
    /\ serving \in Servings
    /\ calls = [t \in Threads |-> IdleCall]
    /\ returned = << >>

NextRace ==
    \E t \in Threads :
        \/ SubmitAdd(t)
        \/ SubmitAward(t)
        \/ Start(t)
        \/ Check(t)
        \/ Create(t)
        \/ Bind(t)
        \/ AppendStmt(t)
        \/ CountRead(t)
        \/ CountWrite(t)
        \/ LastDate(t)
        \/ ExpRead(t)
        \/ ExpWrite(t)
        \/ Level(t)
        \/ LevelUpStmt(t)
        \/ Badges(t)
        \/ AwardUser(t)
        \/ AwardCatalog(t)
        \/ AwardBind(t)
        \/ AwardTest(t)
        \/ AwardAppend(t)
        \/ Save(t)
        \/ Return(t)

SpecRace == InitRace /\ [][NextRace]_vars

\* ================================================================ properties
KnownUsers == DOMAIN progress_data

\* How many badges of the aggregate carry the id.
BadgeCount(progress, badge_id) ==
    Cardinality({ i \in 1 .. Len(progress.badges) :
                    progress.badges[i].id = badge_id })

\* The step is a call add_analysis_record(user_id, ...) that returned; its
\* arguments are read back from the record the call appended.
AddReturned(user_id) ==
    /\ user_id \in DOMAIN progress_data'
    /\ progress_data'[user_id].analysis_records # << >>
    /\ LET records == progress_data'[user_id].analysis_records
           record == records[Len(records)]
       IN  \E d \in CallDelays :
              add_analysis_record(user_id, record.session_id,
                                  record.overall_score, record.angle,
                                  record.category_scores, d)

\* current_level of the user before a call; a user the call creates starts
\* from the dataclass default.
LevelBefore(user_id) ==
    IF user_id \in KnownUsers THEN progress_data[user_id].current_level
    ELSE UserProgress(user_id, now).current_level

\* C1: no user's badge collection ever holds two badges with the same id,
\* whether the badges were awarded automatically, manually or for a level.
C1_NoDuplicateBadgeIds ==
    \A user_id \in KnownUsers :
        \A i, j \in 1 .. Len(progress_data[user_id].badges) :
            i # j => progress_data[user_id].badges[i].id
                        # progress_data[user_id].badges[j].id

\* C1 witness: a user holds an automatic badge, a level badge and a badge
\* that only a manual award gives, after a manual award of a held id failed.
C1_Witness ==
    /\ "u1" \in KnownUsers
    /\ {"first_analysis", "level_2", "improvement_champion"}
          \subseteq BadgeIds(progress_data["u1"])
    /\ result.op = "award_badge"
    /\ ~result.ok

\* C2: every call of add_analysis_record leaves current_level of the user at
\* least as high as it was before the call, and no level is ever below 1.
C2_LevelNeverDecreases ==
    /\ [](\A user_id \in KnownUsers :
            progress_data[user_id].current_level >= 1)
    /\ [][\A user_id \in Users :
            AddReturned(user_id) =>
               progress_data'[user_id].current_level >= LevelBefore(user_id)
         ]_vars

\* C2 witness: a call was made for a user who was already at level 2.
C2_Witness ==
    /\ result.op = "add_analysis_record"
    /\ "u1" \in KnownUsers
    /\ progress_data["u1"].current_level = 2
    /\ progress_data["u1"].total_analyses = 6

\* The highest level of the catalog whose two thresholds the aggregate meets.
MaxAttainedLevel(progress) ==
    LET attained ==
            { level \in DOMAIN level_requirements :
                /\ progress.experience_points
                      >= level_requirements[level].min_points
                /\ progress.total_analyses
                      >= level_requirements[level].min_analyses }
    IN  CHOOSE level \in attained : \A other \in attained : other <= level

\* C3: current_level is always the highest catalog level both of whose
\* thresholds are met; a fresh user is level 1, and a user with at least 100
\* points and at least 5 analyses is at level 2 or higher.
C3_LevelIsMaxAttained ==
    /\ UserProgress("u1", now).current_level = 1
    /\ \A user_id \in KnownUsers :
          LET progress == progress_data[user_id]
          IN  /\ progress.current_level = MaxAttainedLevel(progress)
              /\ (progress.experience_points >= 100
                    /\ progress.total_analyses >= 5)
                  => progress.current_level >= 2

\* C3 witness: a user has the points of level 2 but not yet its analyses.
C3_Witness ==
    /\ "u1" \in KnownUsers
    /\ progress_data["u1"].experience_points >= 100
    /\ progress_data["u1"].total_analyses = 4
    /\ progress_data["u1"].current_level = 1

\* total_analyses and the number of records of the user before a call.
AnalysesBefore(user_id) ==
    IF user_id \in KnownUsers THEN progress_data[user_id].total_analyses
    ELSE UserProgress(user_id, now).total_analyses

RecordsBefore(user_id) ==
    IF user_id \in KnownUsers THEN progress_data[user_id].analysis_records
    ELSE UserProgress(user_id, now).analysis_records

PointsBefore(user_id) ==
    IF user_id \in KnownUsers THEN progress_data[user_id].experience_points
    ELSE UserProgress(user_id, now).experience_points

\* C4: total_analyses of every user equals the length of analysis_records,
\* and every call of add_analysis_record raises both by exactly one.
C4_TotalMatchesRecords ==
    /\ [](\A user_id \in KnownUsers :
            progress_data[user_id].total_analyses
               = Len(progress_data[user_id].analysis_records))
    /\ [][\A user_id \in Users :
            AddReturned(user_id) =>
               /\ progress_data'[user_id].total_analyses
                     = AnalysesBefore(user_id) + 1
               /\ Len(progress_data'[user_id].analysis_records)
                     = Len(RecordsBefore(user_id)) + 1
         ]_vars

\* C4 witness: the second call for a user has returned.
C4_Witness ==
    /\ result.op = "add_analysis_record"
    /\ result.user_id \in KnownUsers
    /\ progress_data[result.user_id].total_analyses = 2
    /\ Len(progress_data[result.user_id].analysis_records) = 2

\* C5: the first call of add_analysis_record for a user id that is not in the
\* store creates the aggregate and leaves first_analysis among its badges.
C5_FirstAnalysisBadge ==
    [][\A user_id \in Users :
         (user_id \notin KnownUsers /\ AddReturned(user_id)) =>
            /\ user_id \in DOMAIN progress_data'
            /\ "first_analysis" \in BadgeIds(progress_data'[user_id])
      ]_vars

\* C5 witness: a second user was created by a call with the high score and
\* category scores, and holds first_analysis.
C5_Witness ==
    /\ KnownUsers = Users
    /\ result.op = "add_analysis_record"
    /\ LET progress == progress_data[result.user_id]
       IN  /\ progress.total_analyses = 1
           /\ progress.analysis_records[1].category_scores # None
           /\ progress.badges[1].id = "first_analysis"

\* The experience table of the claim.
ExperienceTable(score) ==
    CASE score >= 90 -> 30
      [] score >= 80 /\ score < 90 -> 25
      [] score >= 70 /\ score < 80 -> 20
      [] score >= 60 /\ score < 70 -> 15
      [] score < 60 -> 10

\* C6: the experience of a score is 30 from 90 on, 25 from 80, 20 from 70,
\* 15 from 60 and 10 below 60 (95->30, 85->25, 72->20, 65->15, 40->10);
\* add_analysis_record returns it as exp_gained and adds it to
\* experience_points.
C6_ExperienceTiers ==
    /\ [](/\ _calculate_experience_points(95) = 30
          /\ _calculate_experience_points(85) = 25
          /\ _calculate_experience_points(72) = 20
          /\ _calculate_experience_points(65) = 15
          /\ _calculate_experience_points(40) = 10)
    /\ [][\A user_id \in Users :
            AddReturned(user_id) =>
               LET records == progress_data'[user_id].analysis_records
                   score == records[Len(records)].overall_score
               IN  /\ result'.exp_gained = ExperienceTable(score)
                   /\ progress_data'[user_id].experience_points
                         = PointsBefore(user_id) + ExperienceTable(score)
         ]_vars

\* C6 witness: a second call, with a score on a tier bound, has returned.
C6_Witness ==
    /\ result.op = "add_analysis_record"
    /\ result.exp_gained = 25
    /\ "u1" \in KnownUsers
    /\ Len(progress_data["u1"].analysis_records) = 2
    /\ progress_data["u1"].analysis_records[2].overall_score = 80
    /\ progress_data["u1"].experience_points > 25

\* The user's records dated within the 7 days before day t.
RecordsInWeekBefore(progress, t) ==
    { i \in 1 .. Len(progress.analysis_records) :
         progress.analysis_records[i].date >= t - 7 }

\* The step is a call award_badge(user_id, badge_id) that returned.
AwardReturned(user_id, badge_id) == award_badge(user_id, badge_id)

\* C7: when a call of add_analysis_record returns and at least 3 records of
\* the user lie within the 7 days before the evaluation, the user holds
\* consistent_week; the badge enters a collection only by a manual award or
\* in a call at whose evaluation at least 3 records lie within those 7 days.
C7_ConsistentWeek ==
    [][\A user_id \in Users :
         /\ AddReturned(user_id) =>
               (Cardinality(RecordsInWeekBefore(progress_data'[user_id],
                                                now')) >= 3
                  => "consistent_week" \in BadgeIds(progress_data'[user_id]))
         /\ ( /\ user_id \in DOMAIN progress_data'
              /\ "consistent_week" \in BadgeIds(progress_data'[user_id])
              /\ \/ user_id \notin KnownUsers
                 \/ "consistent_week" \notin BadgeIds(progress_data[user_id]) )
            => \/ AwardReturned(user_id, "consistent_week")
               \/ /\ AddReturned(user_id)
                  /\ Cardinality(RecordsInWeekBefore(progress_data'[user_id],
                                                     now')) >= 3
      ]_vars

\* C7 witness: a call has just awarded consistent_week to a user three of
\* whose four records lie within the week.
C7_Witness ==
    /\ result.op = "add_analysis_record"
    /\ "u1" \in KnownUsers
    /\ LET progress == progress_data["u1"]
       IN  /\ Len(progress.analysis_records) = 4
           /\ Cardinality(RecordsInWeekBefore(progress, now)) = 3
           /\ progress.badges[Len(progress.badges)].id = "consistent_week"
           /\ progress.badges[Len(progress.badges)].earned_date = now

\* C8: award_badge returns False and changes neither a user, nor an
\* aggregate, nor the data file when the user is unknown, the badge id is
\* not in the catalog, or the user already holds the badge.
C8_AwardBadgeRefuses ==
    [][\A user_id \in Users, badge_id \in ManualBadgeIds :
         ( /\ AwardReturned(user_id, badge_id)
           /\ \/ user_id \notin KnownUsers
              \/ badge_id \notin DOMAIN badge_definitions
              \/ badge_id \in BadgeIds(progress_data[user_id]) )
         => /\ result'.ok = FALSE
            /\ progress_data' = progress_data
            /\ data_file' = data_file
            /\ saves' = saves
      ]_vars

\* C8 witness: an award to an unknown user was refused while the store held
\* another user.
C8_Witness ==
    /\ result.op = "award_badge"
    /\ ~result.ok
    /\ result.user_id \notin KnownUsers
    /\ KnownUsers # {}

\* C9: award_badge for a known user and a catalog badge the user does not
\* hold returns True and appends one badge with that id and the name,
\* description and icon of the catalog entry, changing nothing else in any
\* aggregate; no later step gives the user a second badge of an id held.
C9_AwardBadgeOnce ==
    [][/\ \A user_id \in KnownUsers, badge_id \in ManualBadgeIds :
            ( /\ AwardReturned(user_id, badge_id)
              /\ badge_id \in DOMAIN badge_definitions
              /\ badge_id \notin BadgeIds(progress_data[user_id]) )
            => /\ result'.ok = TRUE
               /\ DOMAIN progress_data' = KnownUsers
               /\ \A other \in KnownUsers \ {user_id} :
                     progress_data'[other] = progress_data[other]
               /\ LET before == progress_data[user_id]
                      after == progress_data'[user_id]
                      badge == after.badges[Len(after.badges)]
                  IN  /\ Len(after.badges) = Len(before.badges) + 1
                      /\ SubSeq(after.badges, 1, Len(before.badges))
                            = before.badges
                      /\ badge.id = badge_id
                      /\ badge.name = badge_definitions[badge_id].name
                      /\ badge.description
                            = badge_definitions[badge_id].description
                      /\ badge.icon = badge_definitions[badge_id].icon
                      /\ [after EXCEPT !.badges = before.badges] = before
       /\ \A user_id \in KnownUsers :
            \A badge_id \in BadgeIds(progress_data[user_id]) :
               BadgeCount(progress_data'[user_id], badge_id) = 1
      ]_vars

\* C9 witness: consistent_week was awarded by hand before the third record,
\* and a later call found three records within the week.
C9_Witness ==
    /\ result.op = "add_analysis_record"
    /\ "u1" \in KnownUsers
    /\ LET progress == progress_data["u1"]
       IN  /\ Len(progress.analysis_records) >= 3
           /\ Cardinality(RecordsInWeekBefore(progress, now)) >= 3
           /\ \E i \in 1 .. Len(progress.badges) :
                 /\ progress.badges[i].id = "consistent_week"
                 /\ progress.badges[i].earned_date
                       < progress.analysis_records[3].date

\* C10: the result of add_analysis_record carries the new current_level as
\* new_level when the call raised the level, and None when it did not.
C10_NewLevelReported ==
    [][\A user_id \in Users :
         AddReturned(user_id) =>
            LET level == progress_data'[user_id].current_level
            IN  /\ level > LevelBefore(user_id)
                     => result'.new_level = Some(level)
                /\ level = LevelBefore(user_id)
                     => result'.new_level = None
      ]_vars

\* The badges of the user before a call.
BadgesBefore(user_id) ==
    IF user_id \in KnownUsers THEN progress_data[user_id].badges
    ELSE UserProgress(user_id, now).badges

\* The badges the step appended to the collection of the user.
BadgesAppended(user_id) ==
    SubSeq(progress_data'[user_id].badges, Len(BadgesBefore(user_id)) + 1,
           Len(progress_data'[user_id].badges))

\* C11: new_badges in the result of add_analysis_record lists exactly the
\* badges the call appended to the collection of the user, in order.
C11_NewBadgesReported ==
    [][\A user_id \in Users :
         AddReturned(user_id) =>
            LET appended == BadgesAppended(user_id)
            IN  /\ Len(result'.new_badges) = Len(appended)
                /\ \A i \in 1 .. Len(appended) :
                      result'.new_badges[i].id = appended[i].id
      ]_vars

\* The ids of the level-up badges.
LevelBadgeIdSet ==
    { "level_" \o ToString(level) : level \in DOMAIN level_requirements }

\* C16: a call of add_analysis_record that raises current_level to N appends
\* exactly one level badge, level_N, ahead of the catalog badges of the same
\* call; a call that does not raise the level appends no level badge.
C16_LevelBadgeOnLevelUp ==
    [][\A user_id \in Users :
         AddReturned(user_id) =>
            LET appended == BadgesAppended(user_id)
                level == progress_data'[user_id].current_level
                level_badges == { i \in 1 .. Len(appended) :
                                     appended[i].id \in LevelBadgeIdSet }
            IN  IF level > LevelBefore(user_id)
                THEN /\ level_badges = {1}
                     /\ appended[1].id = "level_" \o ToString(level)
                     /\ \A i \in 2 .. Len(appended) :
                           appended[i].id \in DOMAIN badge_definitions
                ELSE level_badges = {}
      ]_vars

\* C16 witness: the call that took the user to level 2 also awarded a
\* catalog badge, which follows level_2 in the collection.
C16_Witness ==
    /\ result.op = "add_analysis_record"
    /\ "u1" \in KnownUsers
    /\ LET badges == progress_data["u1"].badges
       IN  /\ progress_data["u1"].total_analyses = 5
           /\ Len(badges) >= 2
           /\ badges[Len(badges) - 1].id = "level_2"
           /\ badges[Len(badges)].id = "perfectionist"

\* C17: after a call of add_analysis_record, last_analysis_date of the user
\* is the date of the record the call appended.
C17_LastDateIsRecordDate ==
    [][\A user_id \in Users :
         AddReturned(user_id) =>
            LET records == progress_data'[user_id].analysis_records
            IN  progress_data'[user_id].last_analysis_date
                   = Some(records[Len(records)].date)
      ]_vars

\* C18: no two records of one user carry the same session_id.
C18_SessionIdsUnique ==
    \A user_id \in KnownUsers :
        \A i, j \in 1 .. Len(progress_data[user_id].analysis_records) :
            i # j => progress_data[user_id].analysis_records[i].session_id
                        # progress_data[user_id].analysis_records[j].session_id

\* C12: serializing the store with _save_data and deserializing the result
\* with _load_data gives back, for every user, an aggregate equal field for
\* field to the one in memory, records added without category_scores
\* included.
C12_RoundTrip == _load_data(_save_data(progress_data)) = progress_data

\* The step is a call get_user_progress(user_id) that returned.
GetReturned(user_id) == get_user_progress(user_id)

\* The manager was constructed over one of the broken data files and has
\* served no call yet.
StartedOverBrokenFile ==
    /\ result.op = "__init__"
    /\ \/ data_file.kind \in {"missing", "unreadable", "garbage", "partial"}
       \/ data_file = MalformedFile

C19_AppendOnly ==
    [][\A user_id \in Users :
         /\ AddReturned(user_id) =>
               /\ DOMAIN progress_data' = KnownUsers \cup {user_id}
               /\ \A other \in KnownUsers \ {user_id} :
                     progress_data'[other] = progress_data[other]
               /\ user_id \in KnownUsers =>
                     LET old == progress_data[user_id]
                         new == progress_data'[user_id]
                     IN  /\ Len(new.analysis_records)
                              = Len(old.analysis_records) + 1
                         /\ FirstN(new.analysis_records,
                                   Len(old.analysis_records))
                              = old.analysis_records
                         /\ Len(new.badges) >= Len(old.badges)
                         /\ FirstN(new.badges, Len(old.badges)) = old.badges
                         /\ new.created_date = old.created_date
         /\ \A badge_id \in ManualBadgeIds :
               AwardReturned(user_id, badge_id) =>
                  /\ DOMAIN progress_data' = KnownUsers
                  /\ \A u \in KnownUsers :
                        /\ progress_data'[u].analysis_records
                             = progress_data[u].analysis_records
                        /\ Len(progress_data'[u].badges)
                             >= Len(progress_data[u].badges)
                        /\ FirstN(progress_data'[u].badges,
                                  Len(progress_data[u].badges))
                             = progress_data[u].badges
         /\ GetReturned(user_id) => progress_data' = progress_data]_vars

C19_Witness ==
    /\ result.op = "add_analysis_record"
    /\ result.user_id = "u1"
    /\ {"u1", "u2"} \subseteq KnownUsers
    /\ Len(progress_data["u1"].analysis_records) >= 2
    /\ Len(progress_data["u1"].badges) >= 1
    /\ Len(progress_data["u2"].analysis_records) >= 1

\* The records of the aggregate dated within the 30 days before day t.
RecordsInMonthBefore(progress, t) ==
    { i \in 1 .. Len(progress.analysis_records) :
         progress.analysis_records[i].date >= t - 30 }

\* C20: get_user_progress changes neither the store nor the data file; for
\* a user who never had an add_analysis_record call it returns None and does
\* not create the user; for a known user it returns a dictionary whose
\* improvement_trends is empty whenever the user has fewer than 3 records or
\* fewer than 2 records within the trailing 30 days.
C20_GetUserProgress ==
    [][\A user_id \in Users :
         GetReturned(user_id) =>
            /\ progress_data' = progress_data
            /\ data_file' = data_file
            /\ saves' = saves
            /\ user_id \notin KnownUsers => result'.value = None
            /\ user_id \in KnownUsers =>
                  /\ result'.value # None
                  /\ LET progress == progress_data[user_id]
                     IN  ( \/ Len(progress.analysis_records) < 3
                           \/ Cardinality(RecordsInMonthBefore(progress, now))
                                 < 2 )
                         => result'.value[1].improvement_trends = << >>]_vars

C20_Witness ==
    /\ result.op = "get_user_progress"
    /\ result.user_id = "u1"
    /\ "u1" \in KnownUsers
    /\ Len(progress_data["u1"].analysis_records) = 3
    /\ Cardinality(RecordsInMonthBefore(progress_data["u1"], now)) = 1
    /\ result.value # None
    /\ result.value[1].improvement_trends = << >>

\* The entry of the data file holds the aggregate field for field.
StoredMatches(stored, progress) ==
    /\ stored.user_id = progress.user_id
    /\ stored.total_analyses = progress.total_analyses
    /\ stored.current_level = progress.current_level
    /\ stored.experience_points = progress.experience_points
    /\ stored.created_date = [iso |-> progress.created_date]
    /\ stored.last_analysis_date =
          IF progress.last_analysis_date = None THEN None
          ELSE Some([iso |-> progress.last_analysis_date[1]])
    /\ Len(stored.analysis_records) = Len(progress.analysis_records)
    /\ \A i \in 1 .. Len(progress.analysis_records) :
          LET s == stored.analysis_records[i]
              r == progress.analysis_records[i]
          IN  /\ s.session_id = r.session_id
              /\ s.date = [iso |-> r.date]
              /\ s.overall_score = r.overall_score
              /\ s.angle = r.angle
              /\ Some(s.category_scores) = r.category_scores
    /\ Len(stored.badges) = Len(progress.badges)
    /\ \A i \in 1 .. Len(progress.badges) :
          LET s == stored.badges[i]
              b == progress.badges[i]
          IN  /\ s.id = b.id
              /\ s.name = b.name
              /\ s.description = b.description
              /\ s.icon = b.icon
              /\ s.earned_date = [iso |-> b.earned_date]

\* The data file holds every user of the store in memory, field for field.
Persisted ==
    /\ data_file.kind = "json"
    /\ DOMAIN data_file.data = DOMAIN progress_data
    /\ \A user_id \in DOMAIN progress_data :
          StoredMatches(data_file.data[user_id], progress_data[user_id])

\* C13: when an add_analysis_record call or a successful award_badge call
\* returns, the data file holds every user of the store in memory with the
\* field values held in memory.
C13_PersistedOnReturn ==
    [][(saving.at # "idle" /\ saving'.at = "idle") => Persisted']_vars

\* C15: while a save is in progress the data file never holds a truncated
\* or partially written store.
C15_NoPartialFile == saving.at # "idle" => data_file.kind # "partial"

\* The greatest overall_score among the records.
MaxScore(records) ==
    LET scores == { records[i].overall_score : i \in 1 .. Len(records) }
    IN  CHOOSE m \in scores : \A x \in scores : m >= x

\* The user has at least 5 records and the best of the last 5 is at least
\* 20 above the best of the first 5.
ScoreImproved(progress) ==
    LET records == progress.analysis_records
    IN  /\ Len(records) >= 5
        /\ MaxScore(SubSeq(records, Len(records) - 4, Len(records)))
              - MaxScore(SubSeq(records, 1, 5)) >= 20

\* The ids of the badges the step appended to the user's collection.
AppendedIds(user_id) ==
    { BadgesAppended(user_id)[i].id :
        i \in 1 .. Len(BadgesAppended(user_id)) }

\* C23: a call of add_analysis_record appends form_improver exactly when,
\* after the append of its record, the user has at least 5 records with
\* max(last 5 scores) - max(first 5 scores) >= 20 and does not hold the
\* badge yet.
C23_FormImprover ==
    [][\A user_id \in Users : AddReturned(user_id) =>
          ( "form_improver" \in AppendedIds(user_id)
              <=> /\ ScoreImproved(progress_data'[user_id])
                  /\ \A i \in 1 .. Len(BadgesBefore(user_id)) :
                        BadgesBefore(user_id)[i].id # "form_improver" )]_vars

C23_Witness ==
    /\ "u1" \in KnownUsers
    /\ LET progress == progress_data["u1"]
       IN  /\ Len(progress.analysis_records) = 6
           /\ \A i \in 1 .. 5 : progress.analysis_records[i].overall_score = 50
           /\ progress.analysis_records[6].overall_score = 70
           /\ progress.badges[Len(progress.badges)].id = "form_improver"

\* Every category score of the user's last record is above 80.
AllCategoriesAbove80(progress) ==
    /\ progress.analysis_records # << >>
    /\ LET cs == progress.analysis_records[
                    Len(progress.analysis_records)].category_scores
       IN  /\ cs # None
           /\ \A category \in DOMAIN cs[1] : cs[1][category] > 80

\* C24: no call of add_analysis_record appends improvement_champion, whatever
\* the category scores; the badge enters a collection only in a call
\* award_badge(user, "improvement_champion") that returns True.
C24_ChampionOnlyManual ==
    [][\A user_id \in Users :
         /\ AddReturned(user_id)
               => "improvement_champion" \notin AppendedIds(user_id)
         /\ ( /\ user_id \in DOMAIN progress_data'
              /\ "improvement_champion" \in BadgeIds(progress_data'[user_id])
              /\ \/ user_id \notin KnownUsers
                 \/ "improvement_champion"
                       \notin BadgeIds(progress_data[user_id]) )
            => /\ AwardReturned(user_id, "improvement_champion")
               /\ result'.ok = TRUE]_vars

C24_Witness ==
    /\ result.op = "add_analysis_record"
    /\ "u1" \in KnownUsers
    /\ Len(progress_data["u1"].analysis_records) = 3
    /\ \A i \in 1 .. 3 :
          progress_data["u1"].analysis_records[i].category_scores # None
    /\ AllCategoriesAbove80(progress_data["u1"])
    /\ "improvement_champion" \notin BadgeIds(progress_data["u1"])

\* The trend is reported for the aggregate at day t: at least 3 records, at
\* least 2 of them within the trailing 30 days.
TrendReported(progress, t) ==
    /\ Len(progress.analysis_records) >= 3
    /\ Cardinality(RecordsInMonthBefore(progress, t)) >= 2

\* The overall scores of the oldest and of the newest record within the
\* trailing 30 days.
FirstInWindow(progress, t) ==
    LET window == RecordsInMonthBefore(progress, t)
    IN  progress.analysis_records[
           CHOOSE i \in window : \A j \in window : i <= j].overall_score

LastInWindow(progress, t) ==
    LET window == RecordsInMonthBefore(progress, t)
    IN  progress.analysis_records[
           CHOOSE i \in window : \A j \in window : i >= j].overall_score

\* C25: when the trend is reported, it is improving if last > first,
\* declining if first - last >= 5 and stable otherwise.
C25_TrendClassification ==
    [][\A user_id \in Users :
         ( /\ GetReturned(user_id)
           /\ user_id \in KnownUsers
           /\ TrendReported(progress_data[user_id], now) )
         => LET first == FirstInWindow(progress_data[user_id], now)
                last == LastInWindow(progress_data[user_id], now)
                trends == result'.value[1].improvement_trends
            IN  /\ trends # << >>
                /\ trends.overall.trend =
                      IF last > first THEN "improving"
                      ELSE IF first - last >= 5 THEN "declining"
                      ELSE "stable"]_vars

C25_Witness ==
    /\ result.op = "get_user_progress"
    /\ result.user_id = "u1"
    /\ "u1" \in KnownUsers
    /\ now = 0
    /\ Len(progress_data["u1"].analysis_records) = 3
    /\ progress_data["u1"].analysis_records[1].overall_score = 45
    /\ progress_data["u1"].analysis_records[3].overall_score = 40
    /\ result.value # None
    /\ result.value[1].improvement_trends # << >>
    /\ result.value[1].improvement_trends.overall.trend = "declining"

\* n / m rounded to the nearest integer, for m other than 0.
RoundRatio(n, m) == IF m > 0 THEN Round(n, m) ELSE Round(-n, -m)

\* C26: when the trend is reported, change_rate is (last - first) / first *
\* 100 rounded to one decimal (here in tenths of a percent) for every first
\* other than 0, negative ones included, and 0 when first is 0.
C26_ChangeRate ==
    [][\A user_id \in Users :
         ( /\ GetReturned(user_id)
           /\ user_id \in KnownUsers
           /\ TrendReported(progress_data[user_id], now) )
         => LET first == FirstInWindow(progress_data[user_id], now)
                last == LastInWindow(progress_data[user_id], now)
                trends == result'.value[1].improvement_trends
            IN  /\ trends # << >>
                /\ trends.overall.change_rate =
                      IF first = 0 THEN 0
                      ELSE RoundRatio((last - first) * 1000, first)]_vars

\* The sum of _calculate_experience_points over the records.
RECURSIVE ExperienceOf(_)
ExperienceOf(records) ==
    IF records = << >> THEN 0
    ELSE _calculate_experience_points(Head(records).overall_score)
           + ExperienceOf(Tail(records))

\* C27: experience_points of every user is the sum of
\* _calculate_experience_points over the user's records and lies between
\* 10 and 30 times total_analyses; no step lowers it, a call of
\* add_analysis_record raises it by 10 to 30, and award_badge and
\* get_user_progress leave it as it is.
C27_ExperienceIsSum ==
    /\ [](\A user_id \in KnownUsers :
            LET progress == progress_data[user_id]
            IN  /\ progress.experience_points
                     = ExperienceOf(progress.analysis_records)
                /\ 10 * progress.total_analyses <= progress.experience_points
                /\ progress.experience_points <= 30 * progress.total_analyses)
    /\ [][\A user_id \in Users :
            /\ user_id \in KnownUsers =>
                  /\ user_id \in DOMAIN progress_data'
                  /\ progress_data'[user_id].experience_points
                       >= progress_data[user_id].experience_points
            /\ AddReturned(user_id) =>
                  /\ progress_data'[user_id].experience_points
                       >= PointsBefore(user_id) + 10
                  /\ progress_data'[user_id].experience_points
                       <= PointsBefore(user_id) + 30
            /\ ( \/ GetReturned(user_id)
                 \/ \E badge_id \in ManualBadgeIds :
                       AwardReturned(user_id, badge_id) )
               => \A u \in KnownUsers :
                     progress_data'[u].experience_points
                       = progress_data[u].experience_points]_vars

C27_Witness ==
    /\ result.op = "award_badge"
    /\ result.user_id = "u1"
    /\ result.ok = TRUE
    /\ "u1" \in KnownUsers
    /\ Len(progress_data["u1"].analysis_records) = 2
    /\ progress_data["u1"].experience_points = 40

\* C28: a call of add_analysis_record raises current_level by at most 1, and
\* in every state a user holds one badge level_k for each k from 2 to
\* current_level and none for level 1 or for a level above current_level.
C28_NoLevelSkipped ==
    /\ [](\A user_id \in KnownUsers :
            \A k \in DOMAIN level_requirements :
               BadgeCount(progress_data[user_id], "level_" \o ToString(k))
                 = IF 2 <= k /\ k <= progress_data[user_id].current_level
                   THEN 1 ELSE 0)
    /\ [][\A user_id \in Users :
            AddReturned(user_id) =>
               progress_data'[user_id].current_level
                 <= LevelBefore(user_id) + 1]_vars

C28_Witness ==
    /\ "u1" \in KnownUsers
    /\ progress_data["u1"].current_level = 7
    /\ \A k \in 2 .. 7 :
          BadgeCount(progress_data["u1"], "level_" \o ToString(k)) = 1

\* C29: in every state reached by calls of add_analysis_record alone, the
\* user holds perfectionist exactly when some record of the whole history
\* has overall_score >= 95, and dedicated_student exactly when
\* total_analyses >= 50.
C29_HistoryBadges ==
    \A user_id \in KnownUsers :
       LET progress == progress_data[user_id]
       IN  /\ "perfectionist" \in BadgeIds(progress)
                <=> \E i \in 1 .. Len(progress.analysis_records) :
                       progress.analysis_records[i].overall_score >= 95
           /\ "dedicated_student" \in BadgeIds(progress)
                <=> progress.total_analyses >= 50

C29_Witness ==
    /\ "u1" \in KnownUsers
    /\ LET progress == progress_data["u1"]
           n == Len(progress.analysis_records)
       IN  /\ n = 50
           /\ progress.analysis_records[1].overall_score = 95
           /\ \A i \in 2 .. n : progress.analysis_records[i].overall_score = 40
           /\ {"perfectionist", "dedicated_student"} \subseteq BadgeIds(progress)

\* C30: a user for whom add_analysis_record keeps being called eventually
\* reaches level 7; every call leaves a user who has 100 analyses and 2500
\* points, which 250 records guarantee, at level 7; from then on current_level stays 7, no call
\* appends a level_ badge, and get_user_progress reports the terminal
\* next-level requirements with points_needed = 0 and analyses_needed = 0.
C30_TopLevelReached ==
    /\ <>("u1" \in KnownUsers /\ progress_data["u1"].current_level = 7)
    /\ [][
          /\ \A user_id \in DOMAIN progress_data' :
                LET progress == progress_data'[user_id]
                IN  /\ ( /\ progress.total_analyses >= 100
                         /\ progress.experience_points >= 2500 )
                       => progress.current_level = 7
                    /\ progress.total_analyses >= 250
                       => progress.current_level = 7
          /\ \A user_id \in KnownUsers :
                progress_data[user_id].current_level = 7 =>
                   /\ progress_data'[user_id].current_level = 7
                   /\ AppendedIds(user_id) \cap LevelBadgeIdSet = {}
                   /\ GetReturned(user_id) =>
                         LET req == result'.value[1].next_level_requirements
                         IN  /\ req.level = 7
                             /\ req.points_needed = 0
                             /\ req.analyses_needed = 0
       ]_vars

C30_Witness ==
    /\ result.op = "get_user_progress"
    /\ "u1" \in KnownUsers
    /\ progress_data["u1"].total_analyses = 250
    /\ progress_data["u1"].experience_points = 2500
    /\ progress_data["u1"].current_level = 7
    /\ result.value # None
    /\ result.value[1].current_level = 7
    /\ result.value[1].next_level_requirements.points_needed = 0
    /\ result.value[1].next_level_requirements.analyses_needed = 0

\* The number of add_analysis_record calls for the user that returned.
ReturnedAdds(user_id) ==
    Cardinality({ i \in 1 .. Len(returned) :
                    /\ returned[i].op = "add_analysis_record"
                    /\ returned[i].user_id = user_id })

\* No call for the user is in flight.
Quiet(user_id) ==
    \A t \in Threads : InFlight(t) => calls[t].user_id # user_id

\* The aggregate of the user holds one record per returned call, counts
\* them all, and has the experience of them all.
Lossless(user_id) ==
    IF user_id \notin KnownUsers THEN ReturnedAdds(user_id) = 0
    ELSE LET progress == progress_data[user_id]
         IN  /\ Len(progress.analysis_records) = ReturnedAdds(user_id)
             /\ progress.total_analyses = Len(progress.analysis_records)
             /\ progress.experience_points
                  = ExperienceOf(progress.analysis_records)

\* C21: in the API layer (one event loop, handlers without a suspension
\* point around the call of the manager) at most one mutation is in flight
\* at any time, so whenever no call for a user is in flight the aggregate of
\* the user has lost nothing.
C21_RunToCompletion ==
    serving = "event_loop" =>
       /\ Cardinality({ t \in Threads : InFlight(t) }) <= 1
       /\ \A user_id \in Users : Quiet(user_id) => Lossless(user_id)

C21_Witness ==
    /\ serving = "event_loop"
    /\ calls["t1"].op = "add_analysis_record"
    /\ calls["t1"].user_id = "u1"
    /\ calls["t1"].pc = "count_write"
    /\ calls["t2"].op = "award_badge"
    /\ calls["t2"].user_id = "u1"
    /\ calls["t2"].pc = "queued"
    /\ ReturnedAdds("u1") = 0

\* C22: a state with no call for a user in flight in which a record or its
\* experience is lost, or total_analyses differs from the number of
\* records, is reached only when add_analysis_record calls for the user
\* interleave; it is reached then, and never when the calls are serialized
\* per user.
C22_LostOnlyWhenInterleaved ==
    \A user_id \in Users :
       (Quiet(user_id) /\ ~Lossless(user_id)) => serving = "threads"

C22_Witness ==
    /\ serving = "threads"
    /\ \A t \in Threads : calls[t].pc = "idle"
    /\ ReturnedAdds("u1") = 2
    /\ "u1" \in KnownUsers
    /\ Len(progress_data["u1"].analysis_records) = 1
    /\ progress_data["u1"].total_analyses = 1
    /\ progress_data["u1"].experience_points = 30

====
